---- MODULE Spec2Model ----
(***************************************************************************)
(* Retry engine of contest_trade/utils/retry_utils.py: RetryConfig, the    *)
(* sync_retry and async_retry wrappers, the RetryContext guard with the    *)
(* loop that drives it, and the exception taxonomy of                      *)
(* contest_trade/utils/exceptions.py that decides what is retried.         *)
(*                                                                         *)
(* Durations are fixed-point numbers: a duration d seconds is the integer  *)
(* d * Scale.  A failure is a record [kind, src, at]: its class, who       *)
(* raised it, and the attempt index during which it was raised, so that    *)
(* two failures of one class raised by different attempts are different    *)
(* objects.                                                                *)
(***************************************************************************)
EXTENDS Integers, Sequences, FiniteSets, TLC

\* ------------------------------------------------------------------ bounds
\* largest max_retries of a policy run by a single execution
MaxRetriesBound == 3

\* largest max_retries of a policy shared by executions running side by side
TasksMaxRetries == 1

\* largest attempt index calculate_delay is called with on its own
MaxAttemptArg == 10

\* largest finite float, scaled down: sys.float_info.max is about 1.8e308, so
\* that 2.0 ** 1024 is out of range; here 2 ** 10 is
FloatMax == 1000

\* fixed-point resolution of durations and jitter factors: 1 second = Scale
Scale == 10

\* the executions of one wrapped operation that run side by side
Execs == {"t1", "t2"}

NoTask == "NoTask"

\* ------------------------------------------------------- exception taxonomy
\* Direct base class of every failure class: the classes of exceptions.py,
\* the builtins the wrappers name or are used with, and asyncio's
\* cancellation class (a BaseException, not an Exception).
Parent ==
  [ ContestTradeException |-> "Exception",
    ConfigurationError    |-> "ContestTradeException",
    ValidationError       |-> "ContestTradeException",
    DataSourceError       |-> "ContestTradeException",
    DataFetchError        |-> "DataSourceError",
    DataParseError        |-> "DataSourceError",
    APIError              |-> "ContestTradeException",
    APITimeoutError       |-> "APIError",
    APIRateLimitError     |-> "APIError",
    LLMError              |-> "ContestTradeException",
    LLMResponseError      |-> "LLMError",
    LLMParseError         |-> "LLMError",
    AgentError            |-> "ContestTradeException",
    AgentTimeoutError     |-> "AgentError",
    ToolError             |-> "ContestTradeException",
    ToolNotFoundError     |-> "ToolError",
    MarketError           |-> "ContestTradeException",
    InvalidMarketError    |-> "MarketError",
    InvalidSymbolError    |-> "MarketError",
    SignalParseError      |-> "ContestTradeException",
    FactorParseError      |-> "ContestTradeException",
    ValueError            |-> "Exception",
    ConnectionError       |-> "Exception",
    TypeError             |-> "Exception",
    ArithmeticError       |-> "Exception",
    OverflowError         |-> "ArithmeticError",
    Exception             |-> "BaseException",
    CancelledError        |-> "BaseException",
    BaseException         |-> "object" ]

Kinds == DOMAIN Parent

\* issubclass(k, c): walk the base-class chain of k up to the root
IsSubclassIdentity(k, c) == k = c
RECURSIVE IsSubclass(_, _)
IsSubclass(k, c) ==
  IF k = c THEN TRUE
  ELSE IF k \notin Kinds THEN FALSE
  ELSE IsSubclass(Parent[k], c)

\* ------------------------------------------------------------ input spaces
\* classes the wrapped operation raises
OpKinds == {"APIError", "APITimeoutError", "ValueError"}

\* classes the retry callback raises
CallbackKinds == {"ValueError", "APIError"}

\* values the wrapped operation returns
Values == {"r1", "r2"}

\* the `exceptions` tuples of the call sites
RetrySets ==
  { {"Exception"}, {"APIError"}, {"APITimeoutError"},
    {"ValueError", "APITimeoutError"} }

\* (initial_delay, max_delay, exponential_base) of the policies explored
DelayProfiles == { <<1, 60, 2>>, <<10, 15, 5>> }

\* the default jitter_range (0.5, 1.5)
DefaultJitterRange == << Scale \div 2, (3 * Scale) \div 2 >>

Policies ==
  { [max_retries |-> m, initial_delay |-> p[1], max_delay |-> p[2],
     exponential_base |-> p[3], jitter |-> j, jitter_range |-> DefaultJitterRange] :
      m \in 0..MaxRetriesBound, p \in DelayProfiles, j \in BOOLEAN }

\* the jitter ranges of the policies calculate_delay is called on directly:
\* the default, and (1.0, 2.0)
JitterRanges == { DefaultJitterRange, << Scale, 2 * Scale >> }

\* the policies calculate_delay is called on directly
DelayPolicies ==
  { [max_retries |-> MaxRetriesBound, initial_delay |-> p[1], max_delay |-> p[2],
     exponential_base |-> p[3], jitter |-> j, jitter_range |-> r] :
      p \in DelayProfiles, j \in BOOLEAN, r \in JitterRanges }

\* the policies run by executions side by side
TaskPolicies ==
  { [max_retries |-> m, initial_delay |-> 1, max_delay |-> 60,
     exponential_base |-> 2, jitter |-> FALSE,
     jitter_range |-> DefaultJitterRange] : m \in 0..TasksMaxRetries }

\* RetryConfig(): the defaults of RetryConfig.__init__
DefaultConfigLegacyDelay ==
  [max_retries |-> 3, initial_delay |-> 20, max_delay |-> 60,
   exponential_base |-> 2, jitter |-> TRUE, jitter_range |-> DefaultJitterRange]
DefaultConfig ==
  [max_retries |-> 3, initial_delay |-> 1, max_delay |-> 60,
   exponential_base |-> 2, jitter |-> TRUE, jitter_range |-> DefaultJitterRange]

\* the retry defaults published by APIConstants
APIConstants ==
  [MAX_RETRIES |-> 3, INITIAL_RETRY_DELAY |-> 1, MAX_RETRY_DELAY |-> 60,
   EXPONENTIAL_BASE |-> 2]

\* `config=None`: no policy supplied
NoConfig == [supplied |-> FALSE]

\* `if config is None: config = RetryConfig()` of the wrappers,
\* `config or RetryConfig()` of the guard
ResolveConfig(arg) == IF arg = NoConfig THEN DefaultConfig ELSE arg

\* -------------------------------------------------------------- RetryConfig
RECURSIVE Pow(_, _)
Pow(b, n) == IF n <= 0 THEN 1 ELSE b * Pow(b, n - 1)

Min(a, b) == IF a <= b THEN a ELSE b

\* the values random.uniform(jitter_min, jitter_max) is sampled at
JitterFactors(cfg) ==
  IF cfg.jitter THEN {cfg.jitter_range[1], cfg.jitter_range[2]} ELSE {Scale}

\* `self.exponential_base ** attempt` on floats raises OverflowError when the
\* power is out of the float range, and calculate_delay then returns nothing
calculate_delay_raises(cfg, k) == Pow(cfg.exponential_base, k) > FloatMax

\* RetryConfig.calculate_delay with the drawn jitter factor made explicit:
\* the value returned, in 1/Scale seconds, when the power is in range
calculate_delay_unclamped(cfg, k, jitter_factor) ==
  LET d == cfg.initial_delay * Pow(cfg.exponential_base, k)
  IN  IF cfg.jitter THEN d * jitter_factor ELSE d * Scale
calculate_delay(cfg, k, jitter_factor) ==
  LET d == Min(cfg.initial_delay * Pow(cfg.exponential_base, k), cfg.max_delay)
  IN  IF cfg.jitter THEN d * jitter_factor ELSE d * Scale

\* ------------------------------------------------------------------- state
VARIABLES
  config_arg,      \* the `config` argument: a policy, or NoConfig
  config,          \* the RetryConfig closed over by the wrapper / held by the guard
  exceptions,      \* the retryable classes of the wrapper / of the guard
  on_retry,        \* TRUE iff a retry callback was supplied
  mode,            \* "sync" (sync_retry), "async" (async_retry), "scope" (RetryContext)
  tasks,           \* the executions that exist
  pc,              \* position of each execution
  attempt,         \* loop variable `attempt` of each wrapper execution
  last_exception,  \* local `last_exception` of each wrapper execution
  delay,           \* local `delay` of each execution
  ctx_attempt,     \* RetryContext.attempt of the guard object
  ctx_last_exception, \* RetryContext.last_exception of the guard object
  loopOwner,       \* the task the event loop is running, or NoTask
  outcome,         \* how each execution ended, as seen by its caller
  invocations,     \* number of calls of the operation made by each execution
  waits,           \* number of sleeps each execution completed
  opExc,           \* the failure the operation raised most recently
  opReturn,        \* the value the operation returned
  retryableRaised, \* number of calls of the operation that raised a retryable class
  cbCalls,         \* attempt indexes on_retry was called with, in order
  cbLastExc,       \* failure on_retry was called with most recently
  cbErrors,        \* number of "Error in retry callback" log events
  cancelled,       \* where a cancellation was delivered to the task: "no", "in_op", "in_sleep"
  slept,           \* the durations of the sleeps each execution completed, in order
  ctx_read,        \* the value of self.attempt loaded by `self.attempt += 1`
  calc_attempt,    \* argument of the latest direct call of calculate_delay
  calc_result,     \* how that call ended
  calc_prev,       \* how the direct call before it ended
  logWarnings,     \* the logger.warning events of each execution, in order
  logErrors        \* the logger.error events of each execution about the operation's failures, in order

params == << config_arg, config, exceptions, on_retry, mode, tasks >>

\* state of the direct calls of calculate_delay
calc == << calc_attempt, calc_result, calc_prev >>

\* how a direct call of calculate_delay ended: not made yet, returned d, or
\* raised OverflowError
NotCalled == [status |-> "none", value |-> 0]
DelayReturned(d) == [status |-> "returned", value |-> d]
OverflowRaised == [status |-> "raised", value |-> 0]

locals == << attempt, last_exception, delay >>

\* what the logging sink received
logs == << logWarnings, logErrors >>

guard == << ctx_attempt, ctx_last_exception >>

vars == << config_arg, config, exceptions, on_retry, mode, tasks, pc, attempt,
           last_exception, delay, ctx_attempt, ctx_last_exception, loopOwner,
           outcome, invocations, waits, opExc, opReturn, retryableRaised,
           cbCalls, cbLastExc, cbErrors, cancelled, slept, ctx_read,
           calc_attempt, calc_result, calc_prev, logWarnings, logErrors >>

NoExc == [kind |-> "None", src |-> "none", at |-> -1]
NoValue == [val |-> "None", at |-> -1]
NoOutcome == [type |-> "none", value |-> NoValue, exc |-> NoExc]

\* `return <v>`: the caller receives v
ReturnedNone(v) == [type |-> "returned", value |-> NoValue, exc |-> NoExc]
Returned(v) == [type |-> "returned", value |-> v, exc |-> NoExc]

\* `raise`: the caller receives failure x
Raised(x) == [type |-> "raised", value |-> NoValue, exc |-> x]

Modes == {"sync", "async", "scope"}

InitWith(T, P, M) ==
  /\ config_arg \in P
  /\ config = ResolveConfig(config_arg)
  /\ exceptions \in RetrySets
  /\ on_retry \in BOOLEAN
  /\ mode \in M
  /\ mode = "scope" => ~on_retry
  /\ tasks = T
  /\ pc = [e \in Execs |-> "ready"]
  /\ attempt = [e \in Execs |-> 0]
  /\ last_exception = [e \in Execs |-> NoExc]
  /\ delay = [e \in Execs |-> 0]
  /\ ctx_attempt = 0
  /\ ctx_last_exception = NoExc
  /\ loopOwner = NoTask
  /\ outcome = [e \in Execs |-> NoOutcome]
  /\ invocations = [e \in Execs |-> 0]
  /\ waits = [e \in Execs |-> 0]
  /\ opExc = [e \in Execs |-> NoExc]
  /\ opReturn = [e \in Execs |-> NoValue]
  /\ retryableRaised = [e \in Execs |-> 0]
  /\ cbCalls = [e \in Execs |-> << >>]
  /\ cbLastExc = [e \in Execs |-> NoExc]
  /\ cbErrors = [e \in Execs |-> 0]
  /\ cancelled = [e \in Execs |-> "no"]
  /\ slept = [e \in Execs |-> << >>]
  /\ ctx_read = [e \in Execs |-> 0]
  /\ calc_attempt = -1
  /\ calc_result = NotCalled
  /\ calc_prev = NotCalled
  /\ logWarnings = [e \in Execs |-> << >>]
  /\ logErrors = [e \in Execs |-> << >>]

\* one execution, any policy
Init == InitWith({"t1"}, Policies \cup {NoConfig}, Modes)

\* several executions of one wrapped operation
InitTasks == InitWith(Execs, TaskPolicies, {"sync", "async"})

\* one guard object entered by several callers (threads)
InitScopeShared == InitWith(Execs, TaskPolicies, {"scope"})

\* a policy by itself, no execution: calculate_delay is called directly
InitDelay ==
  /\ InitWith({}, DelayPolicies, {"sync"})
  /\ exceptions = {"Exception"}
  /\ ~on_retry

\* -------------------------------------------------- vocabulary of the claims
\* the proper ancestors of class k in the taxonomy
RECURSIVE Ancestors(_)
Ancestors(k) ==
  IF k \notin Kinds THEN {} ELSE {Parent[k]} \cup Ancestors(Parent[k])

\* some entry of the retryable set is k itself or an ancestor of k
InRetryableSet(k) == \E c \in exceptions : c = k \/ c \in Ancestors(k)

\* ---------------------------------------------------------------- scheduling
\* sync_retry and the RetryContext loop run on the caller's own thread.
\* async_retry runs as a task of one event loop: a task takes a step only
\* while it owns the loop, and takes the loop only when no task owns it.
CanRun(e) == mode # "async" \/ loopOwner \in {NoTask, e}

\* the task goes on running
Hold(e) == IF mode = "async" THEN e ELSE NoTask

CancelExc(e) == [kind |-> "CancelledError", src |-> "cancel", at |-> attempt[e]]

\* ------------------------------------------------------- wrapper, by pieces
\* `except exceptions as e` matches
CaughtByRetryClauseBare(k) == TRUE
CaughtByRetryClauseAnyException(k) == IsSubclass(k, "Exception")
CaughtByRetryClause(k) == \E c \in exceptions : IsSubclass(k, c)

\* `except Exception as callback_error` around on_retry matches
CallbackErrorEscapes(k) == FALSE
CaughtByExceptionClause(k) == IsSubclass(k, "Exception")

\* `if attempt == config.max_retries`
ExhaustedEarly(e) == attempt[e] + 1 >= config.max_retries
ExhaustedNever(e) == FALSE
Exhausted(e) == attempt[e] = config.max_retries

\* the arguments of on_retry(e, attempt); `e` is the failure just caught
CallbackArgsOneBased(e) == << last_exception[e], attempt[e] + 1 >>
CallbackArgs(e) == << last_exception[e], attempt[e] >>

\* the wrapper ends: its caller sees `o`, the task leaves the event loop
Finish(e, o) ==
  /\ pc' = [pc EXCEPT ![e] = "done"]
  /\ outcome' = [outcome EXCEPT ![e] = o]
  /\ loopOwner' = NoTask

\* the bare `raise` of the exhausted branch, x being the failure just caught
TerminalRaiseEarlier(e, x) == Raised(last_exception[e])
TerminalRaise(e, x) == Raised(x)

\* the statements after the for loop
AfterLoop(e, last) ==
  IF last # NoExc THEN Finish(e, Raised(last))
  ELSE Finish(e, Returned(NoValue))

\* time.sleep(delay) / await asyncio.sleep(delay) begins: the synchronous
\* wrapper blocks its own thread, the asynchronous one yields the event loop
BeginSleepBlocking(e) ==
  /\ pc' = [pc EXCEPT ![e] = "sleeping"]
  /\ loopOwner' = Hold(e)
BeginSleep(e) ==
  /\ pc' = [pc EXCEPT ![e] = "sleeping"]
  /\ loopOwner' = NoTask

\* `{delay:.2f}`: the delay d, in 1/Scale seconds, rendered in hundredths of a
\* second, rounded to the nearest
FormatDelay(d) == (2 * 100 * d + Scale) \div (2 * Scale)

\* the logger.warning event of a retry: "failed (attempt {attempt + 1}/...),
\* retrying in {delay:.2f}s"; a is the attempt index, d the delay just
\* computed
WarningEventInitialDelay(a, d) ==
  [attempt |-> a + 1, delay |-> FormatDelay(config.initial_delay * Scale)]
WarningEvent(a, d) == [attempt |-> a + 1, delay |-> FormatDelay(d)]

\* the argument of `config.calculate_delay(attempt)`
DelayArgNext(e) == attempt[e] + 1
DelayArg(e) == attempt[e]

\* the OverflowError that comes out of calculate_delay
OverflowExc(at) == [kind |-> "OverflowError", src |-> "calculate_delay", at |-> at]

\* the try statement's handlers, for failure x raised by `func` during the
\* current attempt; jf is the jitter factor calculate_delay draws. A failure
\* of calculate_delay is raised inside the handler and leaves the statement
Handle(e, x, jf) ==
  IF CaughtByRetryClause(x.kind)
  THEN /\ last_exception' = [last_exception EXCEPT ![e] = x]
       /\ IF Exhausted(e)
          THEN /\ logErrors' = [logErrors EXCEPT ![e] = Append(@, "exhausted")]
               /\ Finish(e, TerminalRaise(e, x))
               /\ UNCHANGED << delay, logWarnings >>
          ELSE IF calculate_delay_raises(config, DelayArg(e))
          THEN /\ Finish(e, Raised(OverflowExc(attempt[e])))
               /\ UNCHANGED << delay, logs >>
          ELSE LET d == calculate_delay(config, DelayArg(e), jf)
               IN  /\ delay' = [delay EXCEPT ![e] = d]
                   /\ logWarnings' =
                        [logWarnings EXCEPT ![e] = Append(@, WarningEvent(attempt[e], d))]
                   /\ IF on_retry
                      THEN /\ pc' = [pc EXCEPT ![e] = "on_retry"]
                           /\ loopOwner' = Hold(e)
                      ELSE BeginSleep(e)
                   /\ UNCHANGED << outcome, logErrors >>
  ELSE /\ Finish(e, Raised(x))
       /\ logErrors' =
            [logErrors EXCEPT ![e] =
               IF CaughtByExceptionClause(x.kind) THEN Append(@, "non_retryable") ELSE @]
       /\ UNCHANGED << last_exception, delay, logWarnings >>

\* ---------------------------------------------------------- wrapper actions
\* `for attempt in range(config.max_retries + 1)`: the loop has an iteration
\* with attempt = i
RangeHasShort(i) == i < config.max_retries
RangeHas(i) == i < config.max_retries + 1

\* wrapper() is entered: last_exception = None, first iteration of the loop
Start(e) ==
  /\ e \in tasks
  /\ mode # "scope"
  /\ pc[e] = "ready"
  /\ CanRun(e)
  /\ last_exception' = [last_exception EXCEPT ![e] = NoExc]
  /\ IF RangeHas(0)
     THEN /\ attempt' = [attempt EXCEPT ![e] = 0]
          /\ pc' = [pc EXCEPT ![e] = "call"]
          /\ loopOwner' = Hold(e)
          /\ UNCHANGED outcome
     ELSE /\ AfterLoop(e, NoExc)
          /\ UNCHANGED attempt
  /\ UNCHANGED << params, calc, logs, ctx_read, guard, delay, invocations, waits, slept, opExc, opReturn,
                  retryableRaised, cbCalls, cbLastExc, cbErrors, cancelled >>

\* func(*args, **kwargs) is called; an asynchronous func may suspend
Invoke(e, suspends) ==
  /\ e \in tasks
  /\ mode # "scope"
  /\ pc[e] = "call"
  /\ CanRun(e)
  /\ invocations' = [invocations EXCEPT ![e] = @ + 1]
  /\ pc' = [pc EXCEPT ![e] = "in_op"]
  /\ loopOwner' = IF mode = "async" /\ ~suspends THEN e ELSE NoTask
  /\ UNCHANGED << params, calc, logs, ctx_read, guard, locals, outcome, waits, slept, opExc, opReturn,
                  retryableRaised, cbCalls, cbLastExc, cbErrors, cancelled >>

\* func returns v: `return func(...)` / `return await func(...)`
OpReturns(e, v) ==
  /\ e \in tasks
  /\ mode # "scope"
  /\ pc[e] = "in_op"
  /\ CanRun(e)
  /\ opReturn' = [opReturn EXCEPT ![e] = [val |-> v, at |-> attempt[e]]]
  /\ Finish(e, Returned([val |-> v, at |-> attempt[e]]))
  /\ UNCHANGED << params, calc, logs, ctx_read, guard, locals, invocations, waits, slept, opExc,
                  retryableRaised, cbCalls, cbLastExc, cbErrors, cancelled >>

\* func raises a failure of class k
OpRaises(e, k, jf) ==
  /\ e \in tasks
  /\ mode # "scope"
  /\ pc[e] = "in_op"
  /\ CanRun(e)
  /\ LET x == [kind |-> k, src |-> "op", at |-> attempt[e]]
     IN  /\ opExc' = [opExc EXCEPT ![e] = x]
         /\ retryableRaised' =
              [retryableRaised EXCEPT ![e] = IF InRetryableSet(k) THEN @ + 1 ELSE @]
         /\ Handle(e, x, jf)
  /\ UNCHANGED << params, calc, ctx_read, guard, attempt, invocations, waits, slept, opReturn,
                  cbCalls, cbLastExc, cbErrors, cancelled >>

\* the task is cancelled while suspended inside func (a cancellation is
\* delivered at a suspension point): CancelledError comes out of
\* `await func(...)`
CancelInOp(e, jf) ==
  /\ e \in tasks
  /\ mode = "async"
  /\ pc[e] = "in_op"
  /\ loopOwner = NoTask
  /\ cancelled' = [cancelled EXCEPT ![e] = "in_op"]
  /\ Handle(e, CancelExc(e), jf)
  /\ UNCHANGED << params, calc, ctx_read, guard, attempt, invocations, waits, slept, opExc,
                  opReturn, retryableRaised, cbCalls, cbLastExc, cbErrors >>

\* on_retry(e, attempt) is called and returns
OnRetryReturns(e) ==
  /\ e \in tasks
  /\ pc[e] = "on_retry"
  /\ CanRun(e)
  /\ cbCalls' = [cbCalls EXCEPT ![e] = Append(@, CallbackArgs(e)[2])]
  /\ cbLastExc' = [cbLastExc EXCEPT ![e] = CallbackArgs(e)[1]]
  /\ BeginSleep(e)
  /\ UNCHANGED << params, calc, logs, ctx_read, guard, locals, outcome, invocations, waits, slept, opExc,
                  opReturn, retryableRaised, cbErrors, cancelled >>

\* on_retry(e, attempt) is called and raises a failure of class k
OnRetryRaises(e, k) ==
  /\ e \in tasks
  /\ pc[e] = "on_retry"
  /\ CanRun(e)
  /\ cbCalls' = [cbCalls EXCEPT ![e] = Append(@, CallbackArgs(e)[2])]
  /\ cbLastExc' = [cbLastExc EXCEPT ![e] = CallbackArgs(e)[1]]
  /\ IF CaughtByExceptionClause(k)
     THEN /\ cbErrors' = [cbErrors EXCEPT ![e] = @ + 1]
          /\ BeginSleep(e)
          /\ UNCHANGED outcome
     ELSE /\ Finish(e, Raised([kind |-> k, src |-> "callback", at |-> attempt[e]]))
          /\ UNCHANGED cbErrors
  /\ UNCHANGED << params, calc, logs, ctx_read, guard, locals, invocations, waits, slept, opExc, opReturn,
                  retryableRaised, cancelled >>

\* the sleep is over: next iteration of `for attempt in range(max_retries+1)`
WakeUpSharedCounter(e) ==
  /\ e \in tasks
  /\ mode # "scope"
  /\ pc[e] = "sleeping"
  /\ CanRun(e)
  /\ waits' = [waits EXCEPT ![e] = @ + 1]
  /\ slept' = [slept EXCEPT ![e] = Append(@, delay[e])]
  /\ IF attempt[e] + 1 < config.max_retries + 1
     THEN /\ attempt' = [f \in Execs |-> attempt[e] + 1]
          /\ pc' = [pc EXCEPT ![e] = "call"]
          /\ loopOwner' = Hold(e)
          /\ UNCHANGED outcome
     ELSE /\ AfterLoop(e, last_exception[e])
          /\ UNCHANGED attempt
  /\ UNCHANGED << params, calc, logs, ctx_read, guard, last_exception, delay, invocations, opExc,
                  opReturn, retryableRaised, cbCalls, cbLastExc, cbErrors,
                  cancelled >>
WakeUp(e) ==
  /\ e \in tasks
  /\ mode # "scope"
  /\ pc[e] = "sleeping"
  /\ CanRun(e)
  /\ waits' = [waits EXCEPT ![e] = @ + 1]
  /\ slept' = [slept EXCEPT ![e] = Append(@, delay[e])]
  /\ IF RangeHas(attempt[e] + 1)
     THEN /\ attempt' = [attempt EXCEPT ![e] = @ + 1]
          /\ pc' = [pc EXCEPT ![e] = "call"]
          /\ loopOwner' = Hold(e)
          /\ UNCHANGED outcome
     ELSE /\ AfterLoop(e, last_exception[e])
          /\ UNCHANGED attempt
  /\ UNCHANGED << params, calc, logs, ctx_read, guard, last_exception, delay, invocations, opExc,
                  opReturn, retryableRaised, cbCalls, cbLastExc, cbErrors,
                  cancelled >>

\* the task is cancelled while suspended in `await asyncio.sleep(delay)`:
\* CancelledError is raised inside the handler and leaves the try statement
CancelInSleepSwallowed(e) ==
  /\ e \in tasks
  /\ mode = "async"
  /\ pc[e] = "sleeping"
  /\ loopOwner = NoTask
  /\ cancelled' = [cancelled EXCEPT ![e] = "in_sleep"]
  /\ pc' = [pc EXCEPT ![e] = "call"]
  /\ attempt' = [attempt EXCEPT ![e] = @ + 1]
  /\ loopOwner' = e
  /\ UNCHANGED << params, calc, logs, ctx_read, guard, last_exception, delay, outcome, invocations,
                  waits, slept, opExc, opReturn, retryableRaised, cbCalls, cbLastExc,
                  cbErrors >>
CancelInSleep(e) ==
  /\ e \in tasks
  /\ mode = "async"
  /\ pc[e] = "sleeping"
  /\ loopOwner = NoTask
  /\ cancelled' = [cancelled EXCEPT ![e] = "in_sleep"]
  /\ Finish(e, Raised(CancelExc(e)))
  /\ UNCHANGED << params, calc, logs, ctx_read, guard, locals, invocations, waits, slept, opExc, opReturn,
                  retryableRaised, cbCalls, cbLastExc, cbErrors >>

\* ------------------------------------------- RetryContext and its driving loop
\* issubclass(exc_type, self.exceptions)
CaughtByScopeAll(k) == TRUE
CaughtByScope(k) == \E c \in exceptions : IsSubclass(k, c)

\* `if self.attempt >= self.config.max_retries`
ScopeExhaustedLate == ctx_attempt > config.max_retries
ScopeExhaustedNever == FALSE
ScopeExhausted == ctx_attempt >= config.max_retries

\* `while retry_ctx.attempt <= retry_ctx.config.max_retries:` then
\* `with retry_ctx:` (__enter__ returns self); after the loop,
\* `raise retry_ctx.last_exception`
ScopeLoopTestStrict == ctx_attempt < config.max_retries
ScopeLoopTest == ctx_attempt <= config.max_retries

\* `__enter__` returns self and assigns nothing: the counter and the
\* stored failure are those the guard was left with
ScopeEnterResets == ctx_attempt' = 0 /\ ctx_last_exception' = NoExc
ScopeEnter == UNCHANGED guard

ScopeLoop(e) ==
  /\ e \in tasks
  /\ mode = "scope"
  /\ pc[e] \in {"ready", "loop"}
  /\ IF ScopeLoopTest
     THEN /\ ScopeEnter
          /\ pc' = [pc EXCEPT ![e] = "call"]
          /\ UNCHANGED << outcome, loopOwner >>
     ELSE /\ UNCHANGED guard
          /\ IF ctx_last_exception # NoExc
             THEN Finish(e, Raised(ctx_last_exception))
             ELSE Finish(e, Raised([kind |-> "TypeError", src |-> "caller",
                                    at |-> ctx_attempt]))
  /\ UNCHANGED << params, calc, logs, ctx_read, locals, invocations, waits, slept, opExc, opReturn,
                  retryableRaised, cbCalls, cbLastExc, cbErrors, cancelled >>

\* `result = perform_operation()` is called inside the guarded block
ScopeInvoke(e) ==
  /\ e \in tasks
  /\ mode = "scope"
  /\ pc[e] = "call"
  /\ invocations' = [invocations EXCEPT ![e] = @ + 1]
  /\ pc' = [pc EXCEPT ![e] = "in_op"]
  /\ UNCHANGED << params, calc, logs, ctx_read, guard, locals, loopOwner, outcome, waits, slept, opExc,
                  opReturn, retryableRaised, cbCalls, cbLastExc, cbErrors,
                  cancelled >>

\* the operation returns v; `return result` leaves the block through
\* __exit__(None, None, None)
ScopeOpReturnsReset(e, v) ==
  /\ e \in tasks
  /\ mode = "scope"
  /\ pc[e] = "in_op"
  /\ opReturn' = [opReturn EXCEPT ![e] = [val |-> v, at |-> ctx_attempt]]
  /\ Finish(e, Returned([val |-> v, at |-> ctx_attempt]))
  /\ ctx_attempt' = 0
  /\ ctx_last_exception' = NoExc
  /\ UNCHANGED << params, calc, logs, ctx_read, locals, invocations, waits, slept, opExc,
                  retryableRaised, cbCalls, cbLastExc, cbErrors, cancelled >>
ScopeOpReturns(e, v) ==
  /\ e \in tasks
  /\ mode = "scope"
  /\ pc[e] = "in_op"
  /\ opReturn' = [opReturn EXCEPT ![e] = [val |-> v, at |-> ctx_attempt]]
  /\ Finish(e, Returned([val |-> v, at |-> ctx_attempt]))
  /\ UNCHANGED << params, calc, logs, ctx_read, guard, locals, invocations, waits, slept, opExc,
                  retryableRaised, cbCalls, cbLastExc, cbErrors, cancelled >>

\* the operation raises a failure of class k: __exit__(exc_type, exc_val, tb)
\* up to and including the start of time.sleep(delay)
ScopeOpRaises(e, k, jf) ==
  /\ e \in tasks
  /\ mode = "scope"
  /\ pc[e] = "in_op"
  /\ LET x == [kind |-> k, src |-> "op", at |-> ctx_attempt]
     IN  /\ opExc' = [opExc EXCEPT ![e] = x]
         /\ retryableRaised' =
              [retryableRaised EXCEPT ![e] = IF InRetryableSet(k) THEN @ + 1 ELSE @]
         /\ IF ~CaughtByScope(k)
            THEN /\ Finish(e, Raised(x))
                 /\ UNCHANGED << ctx_last_exception, delay, logs >>
            ELSE /\ ctx_last_exception' = x
                 /\ IF ScopeExhausted
                    THEN /\ logErrors' = [logErrors EXCEPT ![e] = Append(@, "exhausted")]
                         /\ Finish(e, Raised(x))
                         /\ UNCHANGED << delay, logWarnings >>
                    ELSE IF calculate_delay_raises(config, ctx_attempt)
                    THEN /\ Finish(e, Raised(OverflowExc(ctx_attempt)))
                         /\ UNCHANGED << delay, logs >>
                    ELSE LET d == calculate_delay(config, ctx_attempt, jf)
                         IN  /\ delay' = [delay EXCEPT ![e] = d]
                             /\ logWarnings' =
                                  [logWarnings EXCEPT ![e] =
                                     Append(@, WarningEvent(ctx_attempt, d))]
                             /\ pc' = [pc EXCEPT ![e] = "sleeping"]
                             /\ UNCHANGED << outcome, loopOwner, logErrors >>
  /\ UNCHANGED << params, calc, ctx_read, ctx_attempt, attempt, last_exception, invocations,
                  waits, slept, opReturn, cbCalls, cbLastExc, cbErrors, cancelled >>

\* time.sleep(delay) is over, and `self.attempt += 1` loads self.attempt
ScopeWakeUp(e) ==
  /\ e \in tasks
  /\ mode = "scope"
  /\ pc[e] = "sleeping"
  /\ waits' = [waits EXCEPT ![e] = @ + 1]
  /\ slept' = [slept EXCEPT ![e] = Append(@, delay[e])]
  /\ ctx_read' = [ctx_read EXCEPT ![e] = ctx_attempt]
  /\ pc' = [pc EXCEPT ![e] = "increment"]
  /\ UNCHANGED << params, calc, logs, guard, locals, loopOwner, outcome,
                  invocations, opExc, opReturn, retryableRaised, cbCalls,
                  cbLastExc, cbErrors, cancelled >>

\* `self.attempt += 1` stores the sum; `return True`: the failure is
\* suppressed and control is back at the while test
ScopeIncrementTwice(e) ==
  /\ e \in tasks
  /\ mode = "scope"
  /\ pc[e] = "increment"
  /\ ctx_attempt' = ctx_read[e] + 2
  /\ pc' = [pc EXCEPT ![e] = "loop"]
  /\ UNCHANGED << params, calc, logs, ctx_read, ctx_last_exception, locals, loopOwner,
                  outcome, invocations, waits, slept, opExc, opReturn,
                  retryableRaised, cbCalls, cbLastExc, cbErrors, cancelled >>
ScopeIncrementKeeps(e) ==
  /\ e \in tasks
  /\ mode = "scope"
  /\ pc[e] = "increment"
  /\ ctx_attempt' = ctx_read[e]
  /\ pc' = [pc EXCEPT ![e] = "loop"]
  /\ UNCHANGED << params, calc, logs, ctx_read, ctx_last_exception, locals, loopOwner,
                  outcome, invocations, waits, slept, opExc, opReturn,
                  retryableRaised, cbCalls, cbLastExc, cbErrors, cancelled >>
ScopeIncrement(e) ==
  /\ e \in tasks
  /\ mode = "scope"
  /\ pc[e] = "increment"
  /\ ctx_attempt' = ctx_read[e] + 1
  /\ pc' = [pc EXCEPT ![e] = "loop"]
  /\ UNCHANGED << params, calc, logs, ctx_read, ctx_last_exception, locals, loopOwner,
                  outcome, invocations, waits, slept, opExc, opReturn,
                  retryableRaised, cbCalls, cbLastExc, cbErrors, cancelled >>

\* ------------------------------------------- calculate_delay called directly
\* config.calculate_delay(k) returns, for k = 0, 1, 2, ... in turn
CalculateDelayReturnsStoring(jf) ==
  /\ tasks = {}
  /\ calc_attempt < MaxAttemptArg
  /\ ~calculate_delay_raises(config, calc_attempt + 1)
  /\ calc_attempt' = calc_attempt + 1
  /\ calc_result' = DelayReturned(calculate_delay(config, calc_attempt + 1, jf))
  /\ calc_prev' = calc_result
  /\ config' = [config EXCEPT !.initial_delay =
                  Min(@ * config.exponential_base, config.max_delay)]
  /\ UNCHANGED << config_arg, exceptions, on_retry, mode, tasks, logs, ctx_read, guard,
                  locals, pc, loopOwner, outcome, invocations, waits, slept,
                  opExc, opReturn, retryableRaised, cbCalls, cbLastExc,
                  cbErrors, cancelled >>
CalculateDelayReturns(jf) ==
  /\ tasks = {}
  /\ calc_attempt < MaxAttemptArg
  /\ ~calculate_delay_raises(config, calc_attempt + 1)
  /\ calc_attempt' = calc_attempt + 1
  /\ calc_result' = DelayReturned(calculate_delay(config, calc_attempt + 1, jf))
  /\ calc_prev' = calc_result
  /\ UNCHANGED << params, logs, ctx_read, guard, locals, pc, loopOwner, outcome,
                  invocations, waits, slept, opExc, opReturn, retryableRaised,
                  cbCalls, cbLastExc, cbErrors, cancelled >>

\* config.calculate_delay(k) raises OverflowError
CalculateDelayRaises ==
  /\ tasks = {}
  /\ calc_attempt < MaxAttemptArg
  /\ calculate_delay_raises(config, calc_attempt + 1)
  /\ calc_attempt' = calc_attempt + 1
  /\ calc_result' = OverflowRaised
  /\ calc_prev' = calc_result
  /\ UNCHANGED << params, logs, ctx_read, guard, locals, pc, loopOwner, outcome,
                  invocations, waits, slept, opExc, opReturn, retryableRaised,
                  cbCalls, cbLastExc, cbErrors, cancelled >>

\* ---------------------------------------------------------- specifications
\* one step of execution e of a wrapper
ExecutorStep(e) ==
  \/ Start(e)
  \/ \E s \in BOOLEAN : Invoke(e, s)
  \/ \E v \in Values : OpReturns(e, v)
  \/ \E k \in OpKinds, jf \in JitterFactors(config) : OpRaises(e, k, jf)
  \/ \E jf \in JitterFactors(config) : CancelInOp(e, jf)
  \/ OnRetryReturns(e)
  \/ \E k \in CallbackKinds : OnRetryRaises(e, k)
  \/ WakeUp(e)
  \/ CancelInSleep(e)

\* one step of caller e of the guard
ScopeStep(e) ==
  \/ ScopeLoop(e)
  \/ ScopeInvoke(e)
  \/ \E v \in Values : ScopeOpReturns(e, v)
  \/ \E k \in OpKinds, jf \in JitterFactors(config) : ScopeOpRaises(e, k, jf)
  \/ ScopeWakeUp(e)
  \/ ScopeIncrement(e)

Next == \E e \in Execs : ExecutorStep(e) \/ ScopeStep(e)

Spec == Init /\ [][Next]_vars

\* the executors only, several executions side by side
NextTasks == \E e \in Execs : ExecutorStep(e)

SpecTasks == InitTasks /\ [][NextTasks]_vars

\* the callers of one shared guard
NextScopeShared == \E e \in Execs : ScopeStep(e)

SpecScopeShared == InitScopeShared /\ [][NextScopeShared]_vars

\* one guard object used again and again, by one caller at a time: a caller
\* steps only while no other caller is between its first loop test and its end
InitScopeReuse == InitWith(Execs, Policies, {"scope"})

NextScopeReuse ==
  \E e \in Execs :
    /\ \A f \in Execs \ {e} : pc[f] \in {"ready", "done"}
    /\ ScopeStep(e)

SpecScopeReuse == InitScopeReuse /\ [][NextScopeReuse]_vars

\* direct calls of calculate_delay
NextDelay ==
  \/ \E jf \in JitterFactors(config) : CalculateDelayReturns(jf)
  \/ CalculateDelayRaises

SpecDelay == InitDelay /\ [][NextDelay]_vars

\* one execution whose steps all terminate: a call of the operation or of
\* the callback that has begun ends, a wait that has begun ends, and the
\* thread or task goes on to its next statement. InvocationsCap, one more
\* than any policy allows, keeps the observed run finite
InvocationsCap == MaxRetriesBound + 2

LiveStep(e) ==
  /\ ExecutorStep(e) \/ ScopeStep(e)
  /\ invocations'[e] <= InvocationsCap

NextLive == \E e \in Execs : LiveStep(e)

SpecLive == Init /\ [][NextLive]_vars /\ \A e \in Execs : WF_vars(LiveStep(e))

\* every use of a policy: one execution, several executions side by side,
\* several callers of one guard, direct calls of calculate_delay
InitAll == Init \/ InitTasks \/ InitScopeShared \/ InitDelay

NextAll == Next \/ NextDelay

SpecAll == InitAll /\ [][NextAll]_vars

TypeOK ==
  /\ config \in Policies \cup TaskPolicies \cup DelayPolicies
  /\ exceptions \in RetrySets
  /\ mode \in Modes
  /\ pc \in [Execs -> {"ready", "call", "in_op", "on_retry", "sleeping", "increment", "loop", "done"}]
  /\ loopOwner \in Execs \cup {NoTask}
  /\ ctx_attempt \in 0..(MaxRetriesBound + 1)
  /\ calc_attempt \in -1..MaxAttemptArg
  /\ calc_result.status \in {"none", "returned", "raised"}

\* ------------------------------------------------------------------ claims
IsExecutor == mode \in {"sync", "async"}

\* C1: in an executor run that no cancellation interrupts, if every call of
\* the operation raised a failure of a retryable class then, once the run has
\* ended, the operation was called exactly max_retries + 1 times, exactly
\* max_retries waits were performed, and the run ended by raising a failure.
C1_AlwaysFailingRunsAllAttempts ==
  \A e \in tasks :
    ( /\ IsExecutor
      /\ pc[e] = "done"
      /\ cancelled[e] = "no"
      /\ retryableRaised[e] = invocations[e] )
    => /\ invocations[e] = config.max_retries + 1
       /\ waits[e] = config.max_retries
       /\ outcome[e].type = "raised"

C1_Witness ==
  \E e \in tasks :
    /\ IsExecutor
    /\ pc[e] = "done"
    /\ cancelled[e] = "no"
    /\ retryableRaised[e] = invocations[e]
    /\ config.max_retries >= 2
    /\ invocations[e] = config.max_retries + 1

\* C2: once the operation has succeeded, on attempt i after i retryable
\* failures, the execution is over: the operation was called exactly i + 1
\* times, i waits and (with a callback) i callback calls happened, all before
\* the successful attempt, and the caller receives exactly the value the
\* operation returned on attempt i.
C2_SuccessIsForwardedAtOnce ==
  \A e \in tasks :
    (IsExecutor /\ opReturn[e] # NoValue)
    => LET i == retryableRaised[e]
       IN  /\ i <= config.max_retries
           /\ opReturn[e].at = i
           /\ pc[e] = "done"
           /\ outcome[e] = [type |-> "returned", value |-> opReturn[e], exc |-> NoExc]
           /\ invocations[e] = i + 1
           /\ waits[e] = i
           /\ Len(cbCalls[e]) = IF on_retry THEN i ELSE 0

C2_Witness ==
  \E e \in tasks :
    /\ IsExecutor
    /\ opReturn[e] # NoValue
    /\ opReturn[e].at >= 2
    /\ outcome[e].type = "returned"
    /\ outcome[e].value.val = "r2"

\* C3: once an attempt (the first or a later one) has raised a failure whose
\* class is outside the retryable set, the execution is over and its caller
\* got that very failure: the operation was not called again, no wait and no
\* callback call was made for that attempt.
C3_NonRetryablePropagatesAtOnce ==
  \A e \in tasks :
    (IsExecutor /\ opExc[e] # NoExc /\ ~InRetryableSet(opExc[e].kind))
    => /\ pc[e] = "done"
       /\ outcome[e] = [type |-> "raised", value |-> NoValue, exc |-> opExc[e]]
       /\ invocations[e] = opExc[e].at + 1
       /\ waits[e] = opExc[e].at
       /\ \A i \in 1..Len(cbCalls[e]) : cbCalls[e][i] < opExc[e].at
       /\ cbLastExc[e] # opExc[e]

C3_Witness ==
  \E e \in tasks :
    /\ IsExecutor
    /\ opExc[e] # NoExc
    /\ ~InRetryableSet(opExc[e].kind)
    /\ opExc[e].at >= 1
    /\ config.max_retries > opExc[e].at
    /\ pc[e] = "done"

\* C4: once the attempt of index max_retries has raised a retryable failure,
\* the execution is over and the failure its caller gets is that very failure
\* (raised by the operation, during attempt max_retries): not the failure of
\* an earlier attempt, not a wrapper, not a failure of the callback.
C4_ExhaustionRaisesLastFailure ==
  \A e \in tasks :
    ( /\ IsExecutor
      /\ opExc[e].at = config.max_retries
      /\ InRetryableSet(opExc[e].kind) )
    => /\ pc[e] = "done"
       /\ outcome[e] = [type |-> "raised", value |-> NoValue, exc |-> opExc[e]]
       /\ outcome[e].exc.src = "op"

C4_Witness ==
  \E e \in tasks :
    /\ IsExecutor
    /\ opExc[e].at = config.max_retries
    /\ InRetryableSet(opExc[e].kind)
    /\ config.max_retries >= 2
    /\ cbErrors[e] >= 1
    /\ pc[e] = "done"

\* C5: with a callback supplied, in every state of an executor run the
\* callback has been called exactly once for each attempt that raised a
\* retryable failure while attempts remained (the call of the attempt being
\* handled may still be pending), never for the terminal attempt, a success or
\* a non-retryable failure; the indexes passed are 0, 1, 2, ... in order, and
\* each call got the failure its attempt raised.
C5_CallbackOncePerRetriedAttempt ==
  \A e \in tasks :
    (IsExecutor /\ on_retry)
    => LET n == Len(cbCalls[e])
           terminal == opExc[e].at = config.max_retries /\ InRetryableSet(opExc[e].kind)
           retried == retryableRaised[e] - (IF terminal THEN 1 ELSE 0)
           pending == IF pc[e] = "on_retry" THEN 1 ELSE 0
       IN  /\ \A i \in 1..n : cbCalls[e][i] = i - 1
           /\ n = retried - pending
           /\ n > 0 => /\ cbLastExc[e].src = "op"
                       /\ cbLastExc[e].at = n - 1
                       /\ InRetryableSet(cbLastExc[e].kind)
           /\ pc[e] = "sleeping" => cbLastExc[e] = opExc[e]

C5_Witness ==
  \E e \in tasks :
    /\ IsExecutor
    /\ on_retry
    /\ Len(cbCalls[e]) >= 2
    /\ pc[e] = "done"
    /\ outcome[e].type = "raised"
    /\ outcome[e].exc.src = "op"

\* C6: a failure raised by the callback never reaches the caller, and a step
\* in which the callback fails (its error is logged) has, apart from that log
\* event, exactly the effect of a step in which the callback returns: the
\* execution goes on to the wait of that attempt with the same attempt index,
\* pending failure and delay, so its continuation and outcome are the same.
C6_CallbackFailureIsDiscarded ==
  /\ [](\A e \in tasks : outcome[e].exc.src # "callback")
  /\ [][\A e \in tasks :
          (IsExecutor /\ cbErrors'[e] # cbErrors[e])
          => /\ pc' = [pc EXCEPT ![e] = "sleeping"]
             /\ loopOwner' = NoTask
             /\ cbCalls' = [cbCalls EXCEPT ![e] = Append(@, attempt[e])]
             /\ cbLastExc' = [cbLastExc EXCEPT ![e] = last_exception[e]]
             /\ UNCHANGED << params, guard, locals, outcome, invocations,
                             waits, opExc, opReturn, retryableRaised,
                             cancelled >>]_vars

C6_Witness ==
  \E e \in tasks :
    /\ IsExecutor
    /\ cbErrors[e] >= 2
    /\ waits[e] = cbErrors[e]
    /\ invocations[e] = cbErrors[e] + 1
    /\ pc[e] = "done"
    /\ outcome[e].type = "returned"

\* C7: in the executors and in the Retry Scope, when the operation raises a
\* failure of class K while attempts remain, a retry begins if and only if
\* some entry of the retryable set is K or an ancestor of K; a failure that
\* does not match ends the execution with that failure at once.  Instances:
\* APITimeoutError is retried under {APIError}, APIError is not retried under
\* {APITimeoutError}.
C7_RetriedIffKindOrAncestorListed ==
  [][\A e \in tasks :
       opExc'[e] # opExc[e]
       => LET x == opExc'[e]
              remain == IF mode = "scope" THEN ctx_attempt < config.max_retries
                        ELSE attempt[e] < config.max_retries
              retried == pc'[e] \in {"on_retry", "sleeping"}
          IN  /\ remain => (retried <=> InRetryableSet(x.kind))
              /\ ~InRetryableSet(x.kind)
                   => /\ pc'[e] = "done"
                      /\ outcome'[e] = [type |-> "raised", value |-> NoValue, exc |-> x]
              /\ (remain /\ exceptions = {"APIError"} /\ x.kind = "APITimeoutError")
                   => retried
              /\ (exceptions = {"APITimeoutError"} /\ x.kind = "APIError")
                   => ~retried]_vars

C7_Witness ==
  \E e \in tasks :
    /\ mode = "scope"
    /\ exceptions = {"APIError"}
    /\ opExc[e].kind = "APITimeoutError"
    /\ invocations[e] >= 2
    /\ pc[e] = "sleeping"

\* C8: a cancellation delivered to an asynchronous execution during its
\* backoff wait ends the execution with the cancellation raised to the
\* caller; from then on the operation is never called again, and the
\* cancellation counts neither as a retryable failure nor as a completed wait.
C8_CancelInBackoffAborts ==
  /\ [](\A e \in tasks :
          cancelled[e] = "in_sleep"
          => /\ mode = "async"
             /\ pc[e] = "done"
             /\ outcome[e].type = "raised"
             /\ outcome[e].exc.kind = "CancelledError"
             /\ invocations[e] = outcome[e].exc.at + 1
             /\ waits[e] = outcome[e].exc.at)
  /\ [][\A e \in tasks :
          cancelled'[e] = "in_sleep"
          => /\ invocations'[e] = invocations[e]
             /\ retryableRaised'[e] = retryableRaised[e]
             /\ attempt'[e] = attempt[e]]_vars

C8_Witness ==
  \E e \in tasks :
    /\ cancelled[e] = "in_sleep"
    /\ invocations[e] >= 2
    /\ attempt[e] < config.max_retries
    /\ pc[e] = "done"

\* C9: a cancellation delivered to an asynchronous execution at any point,
\* also while the operation is running and whatever the retryable set (the
\* catch-all included), ends the execution in that very step with the
\* cancellation raised to the caller: no callback call, no wait and no further
\* call of the operation happens in that step or after it.
C9_CancellationHasPriority ==
  /\ [](\A e \in tasks :
          cancelled[e] # "no"
          => /\ pc[e] = "done"
             /\ outcome[e] = [type |-> "raised", value |-> NoValue,
                              exc |-> [kind |-> "CancelledError", src |-> "cancel",
                                       at |-> attempt[e]]])
  /\ [][\A e \in tasks :
          cancelled'[e] # "no"
          => /\ pc'[e] = "done"
             /\ invocations'[e] = invocations[e]
             /\ cbCalls'[e] = cbCalls[e]
             /\ waits'[e] = waits[e]
             /\ delay'[e] = delay[e]
             /\ last_exception'[e] = last_exception[e]]_vars

C9_Witness ==
  \E e \in tasks :
    /\ cancelled[e] = "in_op"
    /\ exceptions = {"Exception"}
    /\ on_retry
    /\ invocations[e] >= 2
    /\ attempt[e] < config.max_retries
    /\ pc[e] = "done"

\* C10: on one event loop, whenever an asynchronous execution is in its
\* backoff wait, every other execution that has not ended and that no third
\* running task keeps off the loop can take a step.
C10_BackoffDoesNotBlockSiblings ==
  \A e \in tasks : \A f \in tasks \ {e} :
    ( /\ mode = "async"
      /\ pc[e] = "sleeping"
      /\ pc[f] # "done"
      /\ \A g \in tasks \ {e, f} : loopOwner # g )
    => ENABLED ExecutorStep(f)

C10_Witness ==
  \E e \in tasks : \E f \in tasks \ {e} :
    /\ mode = "async"
    /\ pc[e] = "sleeping"
    /\ loopOwner = f
    /\ pc[f] = "in_op"
    /\ invocations[f] >= 2

\* everything that belongs to execution e: its position, its locals, what its
\* caller sees, and the history of its own operation, waits and callback
ExecState(e) ==
  << pc[e], attempt[e], last_exception[e], delay[e], outcome[e],
     invocations[e], waits[e], slept[e], opExc[e], opReturn[e],
     retryableRaised[e], cbCalls[e], cbLastExc[e], cbErrors[e], cancelled[e] >>

\* C11: when executions of one wrapped operation share one policy and
\* interleave, every step (a failure, a retry, a wake-up, a completion) changes
\* the position, attempt index, waits and outcome of at most the execution
\* that takes it and leaves the policy as it is, and each execution makes at
\* most max_retries + 1 invocations, the invocation in progress being number
\* attempt + 1 of that execution.
C11_ExecutionsAreIndependent ==
  [][ /\ config' = config
      /\ \A e \in tasks, f \in tasks :
            (e # f /\ ExecState(e)' # ExecState(e)) => ExecState(f)' = ExecState(f)
      /\ \A e \in tasks :
            /\ invocations'[e] <= config.max_retries + 1
            /\ pc'[e] = "in_op" => invocations'[e] = attempt'[e] + 1 ]_vars

\* two executions in flight at different attempt indexes: one is waiting
\* after its first failure while the other is in its second invocation
C11_Witness ==
  /\ tasks = Execs
  /\ pc["t1"] = "sleeping" /\ attempt["t1"] = 0 /\ invocations["t1"] = 1
  /\ pc["t2"] = "in_op" /\ attempt["t2"] = 1 /\ invocations["t2"] = 2

\* caller e is between its first test of the while condition and its end
InsideLoop(e) == pc[e] \notin {"ready", "done"}

\* C12: when one guard object is entered by two callers whose steps
\* interleave, a step of one caller never changes the attempt index or the
\* last failure that another caller inside its loop reads from the guard, and
\* the guard's attempt counter never exceeds max_retries.
C12_SharedGuardKeepsCallersApart ==
  /\ [](mode = "scope" => ctx_attempt <= config.max_retries)
  /\ [][ \A e \in tasks, f \in tasks :
            (mode = "scope" /\ e # f /\ pc'[e] # pc[e] /\ InsideLoop(f))
              => guard' = guard ]_vars

\* a direct call of calculate_delay was made on a policy without jitter
UnjitteredCall == tasks = {} /\ ~config.jitter /\ calc_attempt >= 0

\* the clamped envelope E(k) = min(initial_delay * exponential_base^k, max_delay)
Envelope(cfg, k) ==
  Min(cfg.initial_delay * Pow(cfg.exponential_base, k), cfg.max_delay)

\* C13: with jitter disabled, for every attempt k >= 0 and every valid policy,
\* calculate_delay(k) returns min(initial_delay * exponential_base^k,
\* max_delay); the policy (1, 60, 2) gives 1, 2, 4 for k = 0, 1, 2 and the
\* policy (10, 15, 5) gives 10, 15 for k = 0, 1.
C13_UnjitteredDelayIsClampedExponential ==
  UnjitteredCall =>
    /\ calc_result = DelayReturned(Scale * Envelope(config, calc_attempt))
    /\ (config.initial_delay = 1 /\ config.max_delay = 60
          /\ config.exponential_base = 2 /\ calc_attempt <= 2)
         => calc_result.value = Scale * << 1, 2, 4 >>[calc_attempt + 1]
    /\ (config.initial_delay = 10 /\ config.max_delay = 15
          /\ config.exponential_base = 5 /\ calc_attempt <= 1)
         => calc_result.value = Scale * << 10, 15 >>[calc_attempt + 1]

\* C14: for every valid policy with jitter disabled, calculate_delay(k) is at
\* most max_delay for every k >= 0, and calculate_delay(k) <=
\* calculate_delay(k + 1) for every k >= 0.
C14_UnjitteredDelayIsMonotoneAndCapped ==
  UnjitteredCall =>
    /\ calc_result.status = "returned"
    /\ calc_result.value <= Scale * config.max_delay
    /\ calc_attempt >= 1 =>
         /\ calc_prev.status = "returned"
         /\ calc_prev.value <= calc_result.value

\* a direct call of calculate_delay on a policy with jitter returned
JitteredCall == tasks = {} /\ config.jitter /\ calc_result.status = "returned"

\* C15: with jitter enabled and jitter_range = (low, high), every value
\* calculate_delay(k) returns lies between low * E(k) and high * E(k), E(k)
\* being the clamped envelope, and so is at most high * max_delay.
C15_JitteredDelayWithinScaledEnvelope ==
  JitteredCall =>
    /\ config.jitter_range[1] * Envelope(config, calc_attempt) <= calc_result.value
    /\ calc_result.value <= config.jitter_range[2] * Envelope(config, calc_attempt)
    /\ calc_result.value <= config.jitter_range[2] * config.max_delay

\* two calls in a row on the clamped envelope drew different factors, and the
\* later one returned more than max_delay
C15_Witness ==
  /\ JitteredCall
  /\ calc_attempt >= 1
  /\ Envelope(config, calc_attempt - 1) = config.max_delay
  /\ Envelope(config, calc_attempt) = config.max_delay
  /\ calc_prev = DelayReturned(config.jitter_range[1] * config.max_delay)
  /\ calc_result = DelayReturned(config.jitter_range[2] * config.max_delay)
  /\ calc_prev.value < calc_result.value
  /\ calc_result.value > Scale * config.max_delay

\* the values calculate_delay(k) can return under the policy of the run
DelaysOf(k) == { calculate_delay(config, k, jf) : jf \in JitterFactors(config) }

\* the policy of scenario A: max_retries 3, delays 1 / 60 / 2, no jitter
IsScenarioA ==
  /\ config.max_retries = 3
  /\ config.initial_delay = 1 /\ config.max_delay = 60
  /\ config.exponential_base = 2 /\ ~config.jitter

\* C16: in an executor run, every invocation but the first comes right after
\* one completed wait (so the waits completed are one fewer than the
\* invocations while the operation runs), and a run whose operation raised n
\* retryable failures and then returned has made n + 1 invocations and
\* exactly n waits, the j-th of them (j = 0..n-1) of a duration
\* calculate_delay(j); under the policy of scenario A a run that failed 3
\* times and then returned made 4 invocations and waited 1, 2, 4 in that
\* order.
C16_WaitsBetweenInvocations ==
  \A e \in tasks :
    IsExecutor =>
      /\ waits[e] = Len(slept[e])
      /\ pc[e] = "call" => waits[e] = invocations[e]
      /\ pc[e] \in {"in_op", "on_retry", "sleeping"} => waits[e] = invocations[e] - 1
      /\ (pc[e] = "done" /\ outcome[e].type = "returned") =>
           LET n == retryableRaised[e]
           IN  /\ outcome[e].value.at = n
               /\ invocations[e] = n + 1
               /\ waits[e] = n
               /\ \A j \in 0..(n - 1) : slept[e][j + 1] \in DelaysOf(j)
               /\ (IsScenarioA /\ n = 3) =>
                    /\ invocations[e] = 4
                    /\ slept[e] = << 1 * Scale, 2 * Scale, 4 * Scale >>

\* scenario B: under the policy of scenario A the operation failed 3 times
\* with a retryable failure and then returned
C16_Witness ==
  /\ IsExecutor /\ IsScenarioA
  /\ pc["t1"] = "done" /\ outcome["t1"].type = "returned"
  /\ retryableRaised["t1"] = 3
  /\ invocations["t1"] = 4
  /\ Len(slept["t1"]) = 3

\* this step is caller e's release step with a failure: the operation raised
\* inside the guarded block and __exit__ ran up to its sleep or its return
ScopeReleaseWithFailure(e) ==
  /\ mode = "scope"
  /\ pc[e] = "in_op"
  /\ pc'[e] # "in_op"
  /\ opReturn'[e] = opReturn[e]

\* this step is caller e's release step after a clean exit
ScopeReleaseClean(e) ==
  /\ mode = "scope"
  /\ pc[e] = "in_op"
  /\ opReturn'[e] # opReturn[e]

\* this step is caller e's acquire step: the while test passed and
\* `with retry_ctx:` entered the guard
ScopeAcquire(e) ==
  /\ mode = "scope"
  /\ pc[e] \in {"ready", "loop"}
  /\ pc'[e] = "call"

\* C17: a release step of the guard with a failure of a retryable class while
\* the attempt counter a is below max_retries starts a wait of a duration
\* calculate_delay(a) and ends the run in no way; the wait completes with that
\* duration and the counter still a; then the counter becomes a + 1 exactly,
\* the failure is suppressed, and the caller's loop enters the guard again.
C17_ScopeRetryWaitsThenIncrements ==
  [][ \A e \in tasks :
        /\ ( /\ ScopeReleaseWithFailure(e)
             /\ InRetryableSet(opExc'[e].kind)
             /\ ctx_attempt < config.max_retries )
           => /\ pc'[e] = "sleeping"
              /\ delay'[e] \in DelaysOf(ctx_attempt)
              /\ ctx_attempt' = ctx_attempt
              /\ slept'[e] = slept[e]
              /\ outcome'[e] = NoOutcome
        /\ (mode = "scope" /\ pc[e] = "sleeping" /\ pc'[e] # "sleeping")
           => /\ slept'[e] = Append(slept[e], delay[e])
              /\ delay[e] \in DelaysOf(ctx_attempt)
              /\ ctx_attempt' = ctx_attempt
              /\ pc'[e] = "increment"
        /\ (mode = "scope" /\ pc[e] = "increment" /\ pc'[e] # "increment")
           => /\ ctx_attempt' = ctx_attempt + 1
              /\ slept'[e] = slept[e]
              /\ outcome'[e] = NoOutcome
              /\ pc'[e] = "loop"
        /\ (mode = "scope" /\ pc[e] = "loop" /\ pc'[e] # "loop")
           => /\ ScopeAcquire(e)
              /\ Len(slept[e]) = ctx_attempt ]_vars

\* the guard has retried twice: two waits of the delays of attempts 0 and 1
\* are over, the counter is 2, and the loop is about to enter the guard again
C17_Witness ==
  /\ mode = "scope"
  /\ pc["t1"] = "loop"
  /\ ctx_attempt = 2
  /\ Len(slept["t1"]) = 2
  /\ slept["t1"][1] \in DelaysOf(0)
  /\ slept["t1"][2] \in DelaysOf(1)
  /\ outcome["t1"] = NoOutcome

\* C18: a release step of the guard with a failure of a class outside the
\* retryable set does not suppress the failure, which reaches the caller of
\* the loop at once, performs no wait, and leaves the attempt counter and the
\* recorded last failure as they were.
C18_ScopeNonRetryableLeavesGuard ==
  [][ \A e \in tasks :
        (ScopeReleaseWithFailure(e) /\ ~InRetryableSet(opExc'[e].kind))
          => /\ pc'[e] = "done"
             /\ outcome'[e] = Raised(opExc'[e])
             /\ opExc'[e].src = "op"
             /\ ctx_attempt' = ctx_attempt
             /\ ctx_last_exception' = ctx_last_exception
             /\ waits'[e] = waits[e]
             /\ slept'[e] = slept[e] ]_vars

\* after one retried failure the operation raised a failure outside the
\* retryable set: it reached the caller, and the guard still records the
\* earlier failure and the counter 1
C18_Witness ==
  /\ mode = "scope"
  /\ pc["t1"] = "done"
  /\ outcome["t1"] = Raised(opExc["t1"])
  /\ ~InRetryableSet(opExc["t1"].kind)
  /\ opExc["t1"].at = 1
  /\ ctx_attempt = 1
  /\ ctx_last_exception.at = 0
  /\ waits["t1"] = 1

\* C19: a release step of the guard with a failure of a retryable class when
\* the attempt counter equals max_retries does not suppress the failure: the
\* failure raised inside the guarded block reaches the caller as it is, no
\* wait is performed and the counter is not incremented.
C19_ScopeExhaustionPropagates ==
  [][ \A e \in tasks :
        ( /\ ScopeReleaseWithFailure(e)
          /\ InRetryableSet(opExc'[e].kind)
          /\ ctx_attempt = config.max_retries )
          => /\ pc'[e] = "done"
             /\ outcome'[e] = Raised(opExc'[e])
             /\ opExc'[e].src = "op"
             /\ opExc'[e].at = config.max_retries
             /\ ctx_attempt' = ctx_attempt
             /\ waits'[e] = waits[e]
             /\ slept'[e] = slept[e] ]_vars

\* the guard retried max_retries >= 1 times and the operation failed once
\* more with a retryable failure, which the caller received
C19_Witness ==
  /\ mode = "scope"
  /\ config.max_retries >= 1
  /\ pc["t1"] = "done"
  /\ outcome["t1"] = Raised(opExc["t1"])
  /\ InRetryableSet(opExc["t1"].kind)
  /\ opExc["t1"].at = config.max_retries
  /\ ctx_attempt = config.max_retries
  /\ waits["t1"] = config.max_retries

\* C20: a release step of the guard after a clean exit performs no wait and
\* leaves the attempt counter and the recorded last failure as they were, the
\* value returned reaching the caller; the acquire step changes no state of
\* the guard.
C20_ScopeCleanExitAndAcquireAreNoOps ==
  [][ \A e \in tasks :
        /\ ScopeReleaseClean(e)
           => /\ ctx_attempt' = ctx_attempt
              /\ ctx_last_exception' = ctx_last_exception
              /\ waits'[e] = waits[e]
              /\ slept'[e] = slept[e]
              /\ outcome'[e] = Returned(opReturn'[e])
        /\ ScopeAcquire(e)
           => /\ ctx_attempt' = ctx_attempt
              /\ ctx_last_exception' = ctx_last_exception
              /\ waits'[e] = waits[e]
              /\ slept'[e] = slept[e] ]_vars

\* the guarded block exited cleanly after the guard had retried once: the
\* counter is still 1 and the failure of attempt 0 is still recorded
C20_Witness ==
  /\ mode = "scope"
  /\ pc["t1"] = "done"
  /\ outcome["t1"] = Returned(opReturn["t1"])
  /\ opReturn["t1"].at = 1
  /\ ctx_attempt = 1
  /\ ctx_last_exception.at = 0
  /\ waits["t1"] = 1

\* C21: in a run of the documented loop on a fresh guard, if every entry of
\* the guarded block raised a failure of a retryable class then, once the run
\* has ended, the block was entered exactly max_retries + 1 times, exactly
\* max_retries waits were performed and the caller received the failure of
\* the last entry; if the run returned from entry i (counted from 0) then
\* i <= max_retries and the block was entered exactly i + 1 times.
C21_ScopeLoopRunsAllEntries ==
  (mode = "scope" /\ pc["t1"] = "done") =>
    /\ (retryableRaised["t1"] = invocations["t1"]) =>
         /\ invocations["t1"] = config.max_retries + 1
         /\ waits["t1"] = config.max_retries
         /\ outcome["t1"] = Raised(opExc["t1"])
         /\ opExc["t1"].at = config.max_retries
    /\ (outcome["t1"].type = "returned") =>
         /\ outcome["t1"].value = opReturn["t1"]
         /\ opReturn["t1"].at <= config.max_retries
         /\ invocations["t1"] = opReturn["t1"].at + 1
         /\ waits["t1"] = opReturn["t1"].at

\* the loop ran max_retries = 3 retries on always-failing work and ended
\* with the failure of the fourth entry
C21_Witness ==
  /\ mode = "scope" /\ pc["t1"] = "done"
  /\ config.max_retries = 3
  /\ retryableRaised["t1"] = 4 /\ invocations["t1"] = 4 /\ waits["t1"] = 3
  /\ outcome["t1"] = Raised(opExc["t1"])

\* the sleeps execution e has begun: those it completed and the one that is
\* in progress or that a cancellation interrupted
WaitsBegun(e) ==
  waits[e] + (IF pc[e] = "sleeping" \/ cancelled[e] = "in_sleep" THEN 1 ELSE 0)

\* the run of e ended by terminal exhaustion: the attempt of index
\* max_retries raised a failure of a retryable class
EndedExhausted(e) ==
  /\ pc[e] = "done"
  /\ outcome[e] = Raised(opExc[e])
  /\ InRetryableSet(opExc[e].kind)
  /\ opExc[e].at = config.max_retries

\* C22: in an executor run the warning events are one per retry, in order:
\* the j-th is emitted by the failure of the attempt of index j - 1 and
\* carries, as rendered by the message, the delay computed for that attempt,
\* which is the delay slept next; so the number of warning events equals
\* the number of waits begun (between the warning and the start of its wait
\* only the callback runs). A run that ends by exhaustion emitted exactly one
\* error event about the operation, for the terminal attempt, and no warning
\* for it; a run that returned emitted no warning for the successful attempt
\* and no error event about the operation.
C22_OneWarningPerRetry ==
  \A e \in tasks :
    IsExecutor =>
      /\ Len(logWarnings[e]) = IF pc[e] = "on_retry" THEN waits[e] + 1 ELSE WaitsBegun(e)
      /\ \A j \in 1..Len(logWarnings[e]) :
            /\ logWarnings[e][j].attempt = j
            /\ logWarnings[e][j].delay =
                 FormatDelay(IF j <= waits[e] THEN slept[e][j] ELSE delay[e])
            /\ \E d \in DelaysOf(j - 1) : logWarnings[e][j].delay = FormatDelay(d)
      /\ pc[e] # "done" => logErrors[e] = << >>
      /\ EndedExhausted(e) =>
            /\ logErrors[e] = << "exhausted" >>
            /\ Len(logWarnings[e]) = config.max_retries
            /\ Len(logWarnings[e]) = waits[e]
      /\ (pc[e] = "done" /\ outcome[e].type = "returned") =>
            /\ logErrors[e] = << >>
            /\ Len(logWarnings[e]) = opReturn[e].at
            /\ Len(logWarnings[e]) = waits[e]

\* under the policy of scenario A an always-failing run ended by exhaustion
\* after three warnings carrying 1.00, 2.00 and 4.00 seconds and one error
C22_Witness ==
  /\ IsExecutor /\ IsScenarioA
  /\ EndedExhausted("t1")
  /\ logWarnings["t1"] = << [attempt |-> 1, delay |-> FormatDelay(1 * Scale)],
                            [attempt |-> 2, delay |-> FormatDelay(2 * Scale)],
                            [attempt |-> 3, delay |-> FormatDelay(4 * Scale)] >>
  /\ logErrors["t1"] = << "exhausted" >>
  /\ waits["t1"] = 3

\* C23: no step of an executor, of the guard and its loop, or of
\* calculate_delay changes a field of the policy or the retryable set, also
\* when several executions or callers share the policy.
C23_PolicyAndRetryableSetAreReadOnly ==
  [][config' = config /\ exceptions' = exceptions]_vars

\* two executions sharing one policy have both retried and ended
C23_Witness ==
  /\ tasks = Execs
  /\ \A e \in Execs : pc[e] = "done" /\ waits[e] >= 1
  /\ config \in TaskPolicies

\* C24: in an executor run the events of a retry step come in one order. A
\* failed attempt that is retried goes to the callback if there is one and
\* else to the wait, with the delay of that attempt computed; the callback is
\* invoked once and then the wait starts; the wait, when it completes, has
\* lasted that delay and is followed by the next invocation; the operation is
\* invoked only when as many waits have completed as invocations were made
\* before (none before the first); and a run that has ended completed one
\* wait fewer than it made invocations (none after the last).
C24_RetryStepOrder ==
  [][ \A e \in tasks :
        IsExecutor =>
          /\ (pc[e] = "in_op" /\ pc'[e] \notin {"in_op", "done"})
             => /\ opExc'[e].at = attempt[e]
                /\ pc'[e] = IF on_retry THEN "on_retry" ELSE "sleeping"
                /\ delay'[e] \in DelaysOf(attempt[e])
                /\ cbCalls'[e] = cbCalls[e]
                /\ waits'[e] = waits[e]
                /\ invocations'[e] = invocations[e]
          /\ (pc[e] = "on_retry" /\ pc'[e] # "on_retry")
             => /\ pc'[e] = "sleeping"
                /\ cbCalls'[e] = Append(cbCalls[e], attempt[e])
                /\ delay'[e] = delay[e]
                /\ waits'[e] = waits[e]
                /\ invocations'[e] = invocations[e]
          /\ (pc'[e] = "sleeping" /\ on_retry) => Len(cbCalls'[e]) = waits'[e] + 1
          /\ (pc[e] = "sleeping" /\ pc'[e] # "sleeping")
             => \/ /\ pc'[e] = "call"
                   /\ waits'[e] = waits[e] + 1
                   /\ slept'[e] = Append(slept[e], delay[e])
                   /\ delay[e] \in DelaysOf(attempt[e])
                   /\ attempt'[e] = attempt[e] + 1
                   /\ invocations'[e] = invocations[e]
                \/ /\ pc'[e] = "done"
                   /\ cancelled'[e] = "in_sleep"
                   /\ waits'[e] = waits[e]
          /\ (invocations'[e] # invocations[e])
             => /\ pc[e] = "call"
                /\ invocations'[e] = invocations[e] + 1
                /\ waits[e] = invocations[e]
                /\ waits'[e] = waits[e]
          /\ (pc'[e] = "done") => waits'[e] = invocations'[e] - 1 ]_vars

\* a whole retry step with a callback is over: the first attempt failed, the
\* callback was invoked with attempt 0, the wait of the delay of attempt 0
\* completed, and the second invocation is in progress
C24_Witness ==
  /\ IsExecutor /\ on_retry
  /\ pc["t1"] = "in_op"
  /\ invocations["t1"] = 2
  /\ cbCalls["t1"] = << 0 >>
  /\ Len(slept["t1"]) = 1 /\ slept["t1"][1] \in DelaysOf(0)
  /\ opExc["t1"].at = 0

\* C25: when no policy is supplied, the wrapper or the guard runs under
\* RetryConfig(), whose values are max_retries 3, initial_delay 1.0, max_delay
\* 60.0, exponential_base 2.0, jitter on with range (0.5, 1.5), the four
\* numbers being those of APIConstants; so a run, not cancelled, whose every
\* invocation raised a failure of a retryable class made exactly 4
\* invocations.
C25_NoPolicyMeansDefaultPolicy ==
  config_arg = NoConfig =>
    /\ config = DefaultConfig
    /\ config.max_retries = 3 /\ config.max_retries = APIConstants.MAX_RETRIES
    /\ config.initial_delay = 1
    /\ config.initial_delay = APIConstants.INITIAL_RETRY_DELAY
    /\ config.max_delay = 60 /\ config.max_delay = APIConstants.MAX_RETRY_DELAY
    /\ config.exponential_base = 2
    /\ config.exponential_base = APIConstants.EXPONENTIAL_BASE
    /\ config.jitter
    /\ 2 * config.jitter_range[1] \in {Scale - 1, Scale}
    /\ 2 * config.jitter_range[2] \in {3 * Scale - 1, 3 * Scale}
    /\ \A e \in tasks :
          (pc[e] = "done" /\ cancelled[e] = "no"
             /\ retryableRaised[e] = invocations[e])
            => invocations[e] = 4

\* an executor given no policy ran an always-failing operation to exhaustion
C25_Witness ==
  /\ config_arg = NoConfig
  /\ IsExecutor
  /\ EndedExhausted("t1")
  /\ retryableRaised["t1"] = 4 /\ invocations["t1"] = 4
\* the callers of the guard are outside their loops or at a loop boundary,
\* so no wait is in progress and no increment is pending
GuardAtRest == \A e \in tasks : pc[e] \notin {"sleeping", "increment"}

\* C26: for a scope guard with max_retries >= 0 used by one caller at a time,
\* 0 <= attempt <= max_retries in every reachable state; hence in the
\* documented loop the while test never fails: every loop test enters the
\* guard, the loop is left only from the guarded block, by the return of the
\* operation's value or by the operation's failure propagating out of the
\* guard, and the statement after the loop is never reached.
C26_ScopeCounterStaysWithinBudget ==
  /\ [](mode = "scope" => /\ 0 <= ctx_attempt
                          /\ ctx_attempt <= config.max_retries
                          /\ ScopeLoopTest)
  /\ [][ \A e \in tasks :
           /\ (mode = "scope" /\ pc[e] \in {"ready", "loop"} /\ pc'[e] # pc[e])
                => ScopeAcquire(e)
           /\ (mode = "scope" /\ pc[e] # "done" /\ pc'[e] = "done")
                => /\ pc[e] = "in_op"
                   /\ \/ ScopeReleaseClean(e) /\ outcome'[e] = Returned(opReturn'[e])
                      \/ ScopeReleaseWithFailure(e) /\ outcome'[e] = Raised(opExc'[e])
                   /\ outcome'[e].type = "raised" => outcome'[e].exc.src # "caller" ]_vars

\* a second use of the guard passes the loop test with the counter at
\* max_retries, the first use having consumed every retry
C26_Witness ==
  /\ mode = "scope"
  /\ config.max_retries >= 1
  /\ ctx_attempt = config.max_retries
  /\ pc["t1"] = "done"
  /\ outcome["t1"].type = "returned"
  /\ pc["t2"] = "call"

\* the waits performed through the guard so far, over all its uses
WaitsOfAllCallers == waits["t1"] + waits["t2"]

\* C27: the scope guard never resets its attempt counter: over any sequence
\* of acquire and release steps on one guard object the counter never
\* decreases, not even after a clean exit, so the retries consumed in one use
\* are no longer available to a later use of the same guard (the counter is
\* the number of waits of all uses together); once the counter equals
\* max_retries every later retryable failure propagates at once, with no wait.
C27_ScopeCounterNeverResets ==
  /\ [][mode = "scope" => ctx_attempt' >= ctx_attempt]_vars
  /\ []((mode = "scope" /\ GuardAtRest) => ctx_attempt = WaitsOfAllCallers)
  /\ [][ \A e \in tasks :
           ( /\ ScopeReleaseWithFailure(e)
             /\ CaughtByScope(opExc'[e].kind)
             /\ WaitsOfAllCallers = config.max_retries )
             => /\ pc'[e] = "done"
                /\ outcome'[e] = Raised(opExc'[e])
                /\ waits' = waits
                /\ ctx_attempt' = ctx_attempt ]_vars

\* the first use retried once and returned; the second use of the same
\* guard failed once with a retryable failure and got no retry
C27_Witness ==
  /\ mode = "scope"
  /\ config.max_retries = 1
  /\ pc["t1"] = "done" /\ outcome["t1"].type = "returned" /\ waits["t1"] = 1
  /\ pc["t2"] = "done" /\ outcome["t2"] = Raised(opExc["t2"])
  /\ CaughtByScope(opExc["t2"].kind)
  /\ invocations["t2"] = 1
  /\ waits["t2"] = 0
  /\ ctx_attempt = 1

\* C28: for the synchronous and the asynchronous executor with
\* max_retries >= 0, every execution invokes the operation at least once and
\* at most max_retries + 1 times, and ends only by returning a value the
\* operation returned or by propagating a failure (or cancellation) raised
\* during the execution; the wrapper never returns without a result of the
\* operation, and the re-raise placed after the loop is never reached: the
\* first loop test always passes and a completed wait is always followed by
\* another invocation.
C28_ExecutorInvokesAndEndsWithResult ==
  /\ [](\A e \in tasks :
          mode # "scope" =>
            /\ invocations[e] <= config.max_retries + 1
            /\ pc[e] = "done" =>
                 /\ invocations[e] >= 1
                 /\ outcome[e].type = "returned" =>
                      /\ outcome[e].value = opReturn[e]
                      /\ opReturn[e] # NoValue
                      /\ opReturn[e].at = invocations[e] - 1
                 /\ outcome[e].type = "raised" =>
                      /\ outcome[e].exc # NoExc
                      /\ outcome[e].exc.at = invocations[e] - 1
                      /\ \/ outcome[e].exc = opExc[e]
                         \/ outcome[e].exc = CancelExc(e)
                         \/ outcome[e].exc = OverflowExc(attempt[e]))
  /\ [][ \A e \in tasks :
           mode # "scope" =>
             /\ (pc[e] = "ready" /\ pc'[e] # "ready") => pc'[e] = "call"
             /\ (pc[e] = "sleeping" /\ pc'[e] # "sleeping") =>
                  \/ pc'[e] = "call" /\ waits'[e] = waits[e] + 1
                  \/ /\ pc'[e] = "done"
                     /\ cancelled'[e] = "in_sleep"
                     /\ waits'[e] = waits[e]
                     /\ outcome'[e] = Raised(CancelExc(e))
             /\ (pc[e] # "done" /\ pc'[e] = "done") =>
                  pc[e] \in {"in_op", "sleeping"} ]_vars

\* an executor used every invocation the policy allows and returned the
\* value of the last one
C28_Witness ==
  /\ mode # "scope"
  /\ config.max_retries >= 1
  /\ pc["t1"] = "done"
  /\ invocations["t1"] = config.max_retries + 1
  /\ outcome["t1"] = Returned(opReturn["t1"])
  /\ opReturn["t1"].at = config.max_retries

\* the execution of e is over: the caller has a value or a failure
Terminated(e) == pc[e] = "done" /\ outcome[e].type \in {"returned", "raised"}

\* C29: if every invocation of the operation, every callback invocation and
\* every wait terminates, then every execution of the synchronous executor,
\* of the asynchronous executor and of the documented scope loop eventually
\* terminates, with a returned value or a raised failure, whatever the
\* operation's failures are and for every policy with max_retries >= 0.
C29_EveryExecutionTerminates ==
  \A e \in Execs : (e \in tasks) ~> Terminated(e)

\* an execution whose operation failed as often as the policy allows, each
\* retry with a callback and a wait, has ended
C29_Witness ==
  /\ config.max_retries >= 1
  /\ Terminated("t1")
  /\ invocations["t1"] = config.max_retries + 1
  /\ waits["t1"] = config.max_retries
  /\ retryableRaised["t1"] = config.max_retries + 1
  /\ outcome["t1"].type = "raised"

====
